---- MODULE Spec2Model ----
(***************************************************************************)
(* Account REST service: the route handlers of service/routes.py acting    *)
(* on the Account table.  A state is the table, the store's id sequence,   *)
(* the last request with its response, and history variables recording     *)
(* what the clients were told.                                              *)
(***************************************************************************)
EXTENDS Integers, Sequences, FiniteSets, TLC

\* ------------------------------------------------------------------ bounds
MaxId == 2      \* largest id the store's sequence hands out
NumTags == 2    \* number of distinct generated payloads

\* ------------------------------------------------------- HTTP status codes
HTTP_200_OK == 200
HTTP_201_CREATED == 201
HTTP_204_NO_CONTENT == 204
HTTP_400_BAD_REQUEST == 400
HTTP_404_NOT_FOUND == 404
HTTP_415_UNSUPPORTED_MEDIA_TYPE == 415

\* --------------------------------------------------------- request inputs
JSON_TYPE == "application/json"
NoHeader == "<no Content-Type>"
ContentTypes == {JSON_TYPE, "test/html", NoHeader}

TextFields == <<"name", "email", "address", "phone_number">>
TextFieldSet == {TextFields[i] : i \in 1..Len(TextFields)}
Tags == 1..NumTags
PathIds == 0..MaxId

\* what get_json does with a request that is not application/json depends on
\* the installed framework: it yields None, aborts 400, or aborts 415
JsonModes == {"none", "400", "415"}

Today == <<2024, 6, 15>>
NoDate == <<>>
NoId == -1
NoText == <<>>

TagDate(t) == <<2020 + t, t, t>>

\* datetime.date.isoformat, on the dates of the model
IsoFormat(d) ==
    IF d = Today THEN "2024-06-15"
    ELSE IF d = TagDate(1) THEN "2021-01-01"
    ELSE IF d = TagDate(2) THEN "2022-02-02"
    ELSE IF d = TagDate(3) THEN "2023-03-03"
    ELSE "None"

MalformedDate == "01/02/2021"

\* datetime.date.fromisoformat: a date, or NoDate when the string does not parse
FromIsoFormat(s) ==
    IF s = "2024-06-15" THEN Today
    ELSE IF s = "2021-01-01" THEN TagDate(1)
    ELSE IF s = "2022-02-02" THEN TagDate(2)
    ELSE IF s = "2023-03-03" THEN TagDate(3)
    ELSE NoDate

TextVal(f, t) == <<f, t>>

\* a JSON object: the text fields in present carrying payload t, and ds as
\* date_joined unless ds is "" (no date_joined key)
JsonObject(t, present, ds) ==
    [f \in present \cup (IF ds = "" THEN {} ELSE {"date_joined"}) |->
        IF f = "date_joined" THEN ds ELSE TextVal(f, t)]

\* a complete account payload, as the tests' factory generates them
FullObject(t) == JsonObject(t, TextFieldSet, IsoFormat(TagDate(t)))

\* a complete payload but for the date_joined key
NoDateObject == JsonObject(1, TextFieldSet, "")

\* payloads that must not validate: one text field missing, only the name
\* (the body test_bad_request sends), or a date that does not parse
InvalidObjects ==
    {JsonObject(1, TextFieldSet \ {f}, IsoFormat(TagDate(1))) : f \in TextFieldSet}
    \cup {JsonObject(1, {"name"}, "")}
    \cup {JsonObject(1, TextFieldSet, MalformedDate)}

JsonObjects == {FullObject(t) : t \in Tags} \cup {NoDateObject} \cup InvalidObjects

EmptyObject == [f \in {} |-> <<>>]

NotJson == [kind |-> "garbage", obj |-> EmptyObject]
RawBodies == {NotJson} \cup {[kind |-> "json", obj |-> o] : o \in JsonObjects}

\* the requests with a body: every body as application/json, and under any
\* other content type a complete account and an undecodable body
BodyRequests ==
    {[ctype |-> JSON_TYPE, raw |-> raw] : raw \in RawBodies}
    \cup {[ctype |-> ct, raw |-> raw] :
            ct \in ContentTypes \ {JSON_TYPE},
            raw \in {NotJson, [kind |-> "json", obj |-> FullObject(1)]}}

NoneData == [kind |-> "none", obj |-> EmptyObject]

\* ------------------------------------------------- service/models.py: Account
\* Account(): a fresh object, no attribute set yet
NewAccount ==
    [id |-> NoId, name |-> NoText, email |-> NoText, address |-> NoText,
     phone_number |-> NoText, date_joined |-> NoDate]

\* Account.serialize: the wire record, date_joined as an ISO date string
serialize(account) ==
    [id |-> account.id, name |-> account.name, email |-> account.email,
     address |-> account.address, phone_number |-> account.phone_number,
     date_joined |-> IsoFormat(account.date_joined)]

\* the date_joined step of deserialize: today when the key is absent, the
\* parsed date otherwise, a validation error when it does not parse
DeserializeDate(account, obj) ==
    IF "date_joined" \notin DOMAIN obj
    THEN [ok |-> TRUE, account |-> [account EXCEPT !.date_joined = Today]]
    ELSE IF FromIsoFormat(obj["date_joined"]) = NoDate
         THEN [ok |-> FALSE, account |-> account]
         ELSE [ok |-> TRUE,
               account |-> [account EXCEPT !.date_joined = FromIsoFormat(obj["date_joined"])]]

RECURSIVE DeserializeFrom(_, _, _)
\* the text fields are assigned one after the other on the object itself;
\* the first missing one raises, leaving the earlier assignments in place
DeserializeFrom(account, obj, i) ==
    IF i > Len(TextFields) THEN DeserializeDate(account, obj)
    ELSE IF TextFields[i] \notin DOMAIN obj THEN [ok |-> FALSE, account |-> account]
    ELSE DeserializeFrom([account EXCEPT ![TextFields[i]] = obj[TextFields[i]]], obj, i + 1)

\* Account.deserialize(data): ok, or a validation error; either way the
\* object as the assignments left it.  The id is never taken from the data.
deserialize(account, data) ==
    IF data.kind # "dict" THEN [ok |-> FALSE, account |-> account]
    ELSE DeserializeFrom(account, data.obj, 1)

\* Account.find(by_id): the row with that primary key, or none
find(t, by_id) ==
    IF \E i \in 1..Len(t) : t[i].id = by_id
    THEN [found |-> TRUE, account |-> t[CHOOSE i \in 1..Len(t) : t[i].id = by_id]]
    ELSE [found |-> FALSE, account |-> NewAccount]

\* Account.all(): every row
all(t) == t

\* create with the id taken from the row count instead of the sequence
create_by_count(t, seq, account) ==
    LET row == [account EXCEPT !.id = Len(t) + 1]
    IN [table |-> Append(t, row), nextId |-> seq + 1, account |-> row]

\* account.create(): insert a row; the store's sequence assigns the id
create(t, seq, account) ==
    LET row == [account EXCEPT !.id = seq]
    IN [table |-> Append(t, row), nextId |-> seq + 1, account |-> row]

\* account.update(): commit the object's attributes to its row
update(t, account) ==
    [i \in 1..Len(t) |-> IF t[i].id = account.id THEN account ELSE t[i]]

\* account.delete(): remove the object's row
delete(t, account) ==
    SelectSeq(t, LAMBDA r : r.id # account.id)

\* ---------------------------------------------------------- service/routes.py
\* a handler's outcome: the response and the store as the request leaves it
Reply(status, msg, items, t, seq) ==
    [status |-> status, body |-> [msg |-> msg, items |-> items],
     table |-> t, nextId |-> seq]

\* check_content_type accepting any Content-Type header that is present
check_content_type_any(content_type, media_type) ==
    IF content_type # NoHeader THEN 0
    ELSE HTTP_415_UNSUPPORTED_MEDIA_TYPE

\* check_content_type(media_type): 0 when the header is present and equal to
\* media_type, the abort status otherwise
check_content_type(content_type, media_type) ==
    IF content_type # NoHeader /\ content_type = media_type THEN 0
    ELSE HTTP_415_UNSUPPORTED_MEDIA_TYPE

\* request.get_json(): the decoded body, or the status it aborts with
get_json(mode, content_type, raw) ==
    IF content_type = JSON_TYPE
    THEN IF raw.kind = "json"
         THEN [abort |-> 0, data |-> [kind |-> "dict", obj |-> raw.obj]]
         ELSE [abort |-> HTTP_400_BAD_REQUEST, data |-> NoneData]
    ELSE IF mode = "none" THEN [abort |-> 0, data |-> NoneData]
    ELSE IF mode = "400" THEN [abort |-> HTTP_400_BAD_REQUEST, data |-> NoneData]
    ELSE [abort |-> HTTP_415_UNSUPPORTED_MEDIA_TYPE, data |-> NoneData]

\* create_accounts inserting whatever deserialize left on the object
create_accounts_unchecked(t, seq, mode, content_type, raw) ==
    IF check_content_type(content_type, JSON_TYPE) # 0
    THEN Reply(check_content_type(content_type, JSON_TYPE),
               "Content-Type must be application/json", <<>>, t, seq)
    ELSE LET j == get_json(mode, content_type, raw) IN
         IF j.abort # 0 THEN Reply(j.abort, "Bad Request", <<>>, t, seq)
         ELSE LET d == deserialize(NewAccount, j.data)
                  c == create(t, seq, d.account) IN
              Reply(HTTP_201_CREATED, "", <<serialize(c.account)>>, c.table, c.nextId)

\* POST /accounts
create_accounts(t, seq, mode, content_type, raw) ==
    IF check_content_type(content_type, JSON_TYPE) # 0
    THEN Reply(check_content_type(content_type, JSON_TYPE),
               "Content-Type must be application/json", <<>>, t, seq)
    ELSE LET j == get_json(mode, content_type, raw) IN
         IF j.abort # 0 THEN Reply(j.abort, "Bad Request", <<>>, t, seq)
         ELSE LET d == deserialize(NewAccount, j.data) IN
              IF ~d.ok THEN Reply(HTTP_400_BAD_REQUEST, "Invalid Account", <<>>, t, seq)
              ELSE LET c == create(t, seq, d.account) IN
                   Reply(HTTP_201_CREATED, "", <<serialize(c.account)>>, c.table, c.nextId)

\* list_accounts skipping the first row
list_accounts_skip(t, seq) ==
    Reply(HTTP_200_OK, "",
          IF all(t) = <<>> THEN <<>>
          ELSE [i \in 1..(Len(all(t)) - 1) |-> serialize(all(t)[i + 1])], t, seq)

\* GET /accounts
list_accounts(t, seq) ==
    Reply(HTTP_200_OK, "", [i \in 1..Len(all(t)) |-> serialize(all(t)[i])], t, seq)

\* GET /accounts/<account_id>
get_accounts(t, seq, account_id) ==
    LET f == find(t, account_id) IN
    IF ~f.found
    THEN Reply(HTTP_404_NOT_FOUND, "Account could not be found", <<>>, t, seq)
    ELSE Reply(HTTP_200_OK, "", <<serialize(f.account)>>, t, seq)

\* update_account committing the object although deserialize raised
update_account_partial(t, seq, mode, account_id, content_type, raw) ==
    LET j == get_json(mode, content_type, raw) IN
    IF j.abort # 0
    THEN Reply(j.abort, IF j.abort = HTTP_400_BAD_REQUEST THEN "Bad Request"
                        ELSE "Unsupported Media Type", <<>>, t, seq)
    ELSE LET f == find(t, account_id) IN
         IF ~f.found
         THEN Reply(HTTP_404_NOT_FOUND, "Account could not be found", <<>>, t, seq)
         ELSE LET d == deserialize(f.account, j.data) IN
              IF ~d.ok THEN Reply(HTTP_400_BAD_REQUEST, "Invalid Account", <<>>,
                                  update(t, d.account), seq)
              ELSE Reply(HTTP_200_OK, "", <<serialize(d.account)>>,
                         update(t, d.account), seq)

\* update_account validating the body before it looks the account up
update_account_validate_first(t, seq, mode, account_id, content_type, raw) ==
    LET j == get_json(mode, content_type, raw) IN
    IF j.abort # 0
    THEN Reply(j.abort, IF j.abort = HTTP_400_BAD_REQUEST THEN "Bad Request"
                        ELSE "Unsupported Media Type", <<>>, t, seq)
    ELSE IF ~deserialize(NewAccount, j.data).ok
         THEN Reply(HTTP_400_BAD_REQUEST, "Invalid Account", <<>>, t, seq)
         ELSE LET f == find(t, account_id) IN
              IF ~f.found
              THEN Reply(HTTP_404_NOT_FOUND, "Account could not be found", <<>>, t, seq)
              ELSE LET d == deserialize(f.account, j.data) IN
                   Reply(HTTP_200_OK, "", <<serialize(d.account)>>,
                         update(t, d.account), seq)

\* update_account answering without account.update()
update_account_no_commit(t, seq, mode, account_id, content_type, raw) ==
    LET j == get_json(mode, content_type, raw) IN
    IF j.abort # 0
    THEN Reply(j.abort, IF j.abort = HTTP_400_BAD_REQUEST THEN "Bad Request"
                        ELSE "Unsupported Media Type", <<>>, t, seq)
    ELSE LET f == find(t, account_id) IN
         IF ~f.found
         THEN Reply(HTTP_404_NOT_FOUND, "Account could not be found", <<>>, t, seq)
         ELSE LET d == deserialize(f.account, j.data) IN
              IF ~d.ok THEN Reply(HTTP_400_BAD_REQUEST, "Invalid Account", <<>>, t, seq)
              ELSE Reply(HTTP_200_OK, "", <<serialize(d.account)>>, t, seq)

\* PUT /accounts/<account_id>
update_account(t, seq, mode, account_id, content_type, raw) ==
    LET j == get_json(mode, content_type, raw) IN
    IF j.abort # 0
    THEN Reply(j.abort, IF j.abort = HTTP_400_BAD_REQUEST THEN "Bad Request"
                        ELSE "Unsupported Media Type", <<>>, t, seq)
    ELSE LET f == find(t, account_id) IN
         IF ~f.found
         THEN Reply(HTTP_404_NOT_FOUND, "Account could not be found", <<>>, t, seq)
         ELSE LET d == deserialize(f.account, j.data) IN
              IF ~d.ok THEN Reply(HTTP_400_BAD_REQUEST, "Invalid Account", <<>>, t, seq)
              ELSE Reply(HTTP_200_OK, "", <<serialize(d.account)>>,
                         update(t, d.account), seq)

\* delete_account answering 404 for an account that is not stored
delete_account_strict(t, seq, account_id) ==
    LET f == find(t, account_id) IN
    IF f.found
    THEN Reply(HTTP_204_NO_CONTENT, "", <<>>, delete(t, f.account), seq)
    ELSE Reply(HTTP_404_NOT_FOUND, "Account could not be found", <<>>, t, seq)

\* delete_account answering 204 without account.delete()
delete_account_keep(t, seq, account_id) ==
    Reply(HTTP_204_NO_CONTENT, "", <<>>, t, seq)

\* DELETE /accounts/<account_id>
delete_account(t, seq, account_id) ==
    LET f == find(t, account_id) IN
    IF f.found
    THEN Reply(HTTP_204_NO_CONTENT, "", <<>>, delete(t, f.account), seq)
    ELSE Reply(HTTP_204_NO_CONTENT, "", <<>>, t, seq)

\* ------------------------------------------------------------------- state
VARIABLES table, nextId, jsonMode, resp, issued, deleted, expected

vars == <<table, nextId, jsonMode, resp, issued, deleted, expected>>
\* the request and what it was answered with
Exchange(method, account_id, content_type, raw, r) ==
    [method |-> method, id |-> account_id, ctype |-> content_type, raw |-> raw,
     status |-> r.status, body |-> r.body]

\* the value a body carries for a text field, none when it has no such key
Sent(obj, f) == IF f \in DOMAIN obj THEN obj[f] ELSE NoText

\* what a client that sent obj and was answered with success expects to read
\* back: the text fields of obj, and its date (today's when it sent none)
Written(account_id, obj) ==
    [id |-> account_id, name |-> Sent(obj, "name"), email |-> Sent(obj, "email"),
     address |-> Sent(obj, "address"), phone_number |-> Sent(obj, "phone_number"),
     date_joined |-> IF "date_joined" \in DOMAIN obj THEN obj["date_joined"]
                     ELSE IsoFormat(Today)]

Init ==
    /\ table = <<>>
    /\ nextId = 1
    /\ jsonMode \in JsonModes
    /\ resp = [method |-> "NONE", id |-> 0, ctype |-> NoHeader, raw |-> NotJson,
               status |-> 0, body |-> [msg |-> "", items |-> <<>>]]
    /\ issued = <<>>
    /\ deleted = {}
    /\ expected = <<>>

Post ==
    \E rq \in BodyRequests :
        LET ct == rq.ctype
            raw == rq.raw
            r == create_accounts(table, nextId, jsonMode, ct, raw) IN
        /\ r.status = HTTP_201_CREATED => nextId <= MaxId
        /\ table' = r.table
        /\ nextId' = r.nextId
        /\ resp' = Exchange("POST", 0, ct, raw, r)
        /\ issued' = IF r.status = HTTP_201_CREATED
                     THEN Append(issued, r.body.items[1].id) ELSE issued
        /\ expected' = IF r.status = HTTP_201_CREATED
                       THEN Append(expected, Written(r.body.items[1].id, raw.obj))
                       ELSE expected
        /\ UNCHANGED <<jsonMode, deleted>>

List ==
    LET r == list_accounts(table, nextId) IN
    /\ table' = r.table
    /\ nextId' = r.nextId
    /\ resp' = Exchange("LIST", 0, NoHeader, NotJson, r)
    /\ UNCHANGED <<jsonMode, issued, deleted, expected>>

Get ==
    \E id \in PathIds :
        LET r == get_accounts(table, nextId, id) IN
        /\ table' = r.table
        /\ nextId' = r.nextId
        /\ resp' = Exchange("GET", id, NoHeader, NotJson, r)
        /\ UNCHANGED <<jsonMode, issued, deleted, expected>>

Put ==
    \E id \in PathIds, rq \in BodyRequests :
        LET ct == rq.ctype
            raw == rq.raw
            r == update_account(table, nextId, jsonMode, id, ct, raw) IN
        /\ table' = r.table
        /\ nextId' = r.nextId
        /\ resp' = Exchange("PUT", id, ct, raw, r)
        /\ expected' = IF r.status = HTTP_200_OK
                       THEN [i \in 1..Len(expected) |->
                                IF expected[i].id = id THEN Written(id, raw.obj)
                                ELSE expected[i]]
                       ELSE expected
        /\ UNCHANGED <<jsonMode, issued, deleted>>

Delete ==
    \E id \in PathIds :
        LET r == delete_account(table, nextId, id) IN
        /\ table' = r.table
        /\ nextId' = r.nextId
        /\ resp' = Exchange("DELETE", id, NoHeader, NotJson, r)
        /\ deleted' = IF find(table, id).found THEN deleted \cup {id} ELSE deleted
        /\ expected' = SelectSeq(expected, LAMBDA e : e.id # id)
        /\ UNCHANGED <<jsonMode, issued>>

Next == Post \/ List \/ Get \/ Put \/ Delete

Spec == Init /\ [][Next]_vars
\* ------------------------------------------------------------------ claims
ErrorStatuses == {HTTP_400_BAD_REQUEST, HTTP_404_NOT_FOUND, HTTP_415_UNSUPPORTED_MEDIA_TYPE}

Stored(t, account_id) == find(t, account_id).found

\* the request was decoded: application/json with a body that is JSON
Decoded(r) == r.ctype = JSON_TYPE /\ r.raw.kind = "json"

LacksRequired(obj) == \E f \in TextFieldSet : f \notin DOMAIN obj

\* C1: a POST or PUT answered with 400, 404 or 415 leaves the set of stored
\* accounts and every stored field value as they were before the request.
C1_NoPartialWrite ==
    [][(resp'.method \in {"POST", "PUT"} /\ resp'.status \in ErrorStatuses)
        => (table' = table /\ nextId' = nextId)]_vars

\* a PUT to a stored account was refused with 400 although its body carried
\* a name, and one different from the stored name
C1_Witness ==
    /\ resp.method = "PUT"
    /\ resp.status = HTTP_400_BAD_REQUEST
    /\ Stored(table, resp.id)
    /\ Decoded(resp)
    /\ "name" \in DOMAIN resp.raw.obj
    /\ resp.raw.obj["name"] # find(table, resp.id).account.name

\* C2: every id a successful create returned is positive and differs from
\* every id returned by another create, deleted since or not; the stored
\* accounts have pairwise different ids.
C2_FreshIds ==
    /\ \A i \in 1..Len(issued) : issued[i] > 0
    /\ \A i, j \in 1..Len(issued) : i # j => issued[i] # issued[j]
    /\ \A i, j \in 1..Len(table) : i # j => table[i].id # table[j].id
    /\ (resp.method = "POST" /\ resp.status = HTTP_201_CREATED)
         => resp.body.items[1].id = issued[Len(issued)]

\* a create has just succeeded after an earlier account was deleted
C2_Witness ==
    /\ resp.method = "POST"
    /\ resp.status = HTTP_201_CREATED
    /\ Len(issued) >= 2
    /\ deleted # {}

\* C3: a POST whose Content-Type is not application/json is answered 415
\* whatever its body, and creates nothing.
C3_PostMediaType ==
    [][(resp'.method = "POST" /\ resp'.ctype # JSON_TYPE)
        => (resp'.status = HTTP_415_UNSUPPORTED_MEDIA_TYPE
            /\ table' = table /\ nextId' = nextId)]_vars

\* a complete account sent as test/html was refused with 415
C3_Witness ==
    /\ resp.method = "POST"
    /\ resp.ctype = "test/html"
    /\ resp.raw = [kind |-> "json", obj |-> FullObject(1)]
    /\ resp.status = HTTP_415_UNSUPPORTED_MEDIA_TYPE

\* C4: a POST of application/json whose body lacks one of name, email,
\* address, phone_number is answered 400 and inserts nothing.
C4_PostMissingField ==
    [][(resp'.method = "POST" /\ Decoded(resp') /\ LacksRequired(resp'.raw.obj))
        => (resp'.status = HTTP_400_BAD_REQUEST
            /\ table' = table /\ nextId' = nextId)]_vars

\* a body complete but for phone_number was refused with 400
C4_Witness ==
    /\ resp.method = "POST"
    /\ Decoded(resp)
    /\ DOMAIN resp.raw.obj = (TextFieldSet \ {"phone_number"}) \cup {"date_joined"}
    /\ resp.status = HTTP_400_BAD_REQUEST

\* C5 as claimed: a PUT for an id with no stored account is answered 404
\* whatever its body, and the number of stored accounts is unchanged.
C5_Original ==
    [][(resp'.method = "PUT" /\ ~Stored(table, resp'.id))
        => (resp'.status = HTTP_404_NOT_FOUND /\ Len(table') = Len(table))]_vars

\* C5 amended: a PUT for an id with no stored account never changes the
\* store, and is answered 404 when the request is application/json with a
\* body that is JSON, whether or not that body is a valid account.
C5_PutNotFound ==
    [][(resp'.method = "PUT" /\ ~Stored(table, resp'.id))
        => /\ table' = table /\ nextId' = nextId
           /\ Decoded(resp') => resp'.status = HTTP_404_NOT_FOUND]_vars

\* an invalid account was PUT to an id that is not stored, and answered 404
C5_Witness ==
    /\ resp.method = "PUT"
    /\ ~Stored(table, resp.id)
    /\ Decoded(resp)
    /\ resp.raw.obj \in InvalidObjects
    /\ resp.status = HTTP_404_NOT_FOUND
ValidObjects == {FullObject(t) : t \in Tags} \cup {NoDateObject}

ItemSet(items) == {items[i] : i \in 1..Len(items)}

\* C6: a PUT of a valid application/json body to a stored account is answered
\* 200; a GET of that id then returns the body's name, email, address,
\* phone_number and date_joined under the same id, and every other stored
\* account is as it was.
C6_UpdatePersists ==
    [][(/\ resp'.method = "PUT"
        /\ Decoded(resp')
        /\ resp'.raw.obj \in ValidObjects
        /\ Stored(table, resp'.id))
        => /\ resp'.status = HTTP_200_OK
           /\ get_accounts(table', nextId', resp'.id).status = HTTP_200_OK
           /\ get_accounts(table', nextId', resp'.id).body.items
                = <<Written(resp'.id, resp'.raw.obj)>>
           /\ Len(table') = Len(table)
           /\ \A i \in 1..Len(table) :
                /\ table'[i].id = table[i].id
                /\ table[i].id # resp'.id => table'[i] = table[i]]_vars

\* an update was answered 200 while a second account is stored, and the two
\* stored accounts now carry different names
C6_Witness ==
    /\ resp.method = "PUT"
    /\ resp.status = HTTP_200_OK
    /\ Len(table) = 2
    /\ table[1].name # table[2].name
    /\ find(table, resp.id).account.name = resp.raw.obj["name"]

\* C7: DELETE is answered 204 with an empty body whether or not the account
\* is stored, leaves the accounts with other ids as they were, and a second
\* DELETE of the same id right after the first is answered 204 and changes
\* nothing.
C7_DeleteIdempotent ==
    [][resp'.method = "DELETE"
        => /\ resp'.status = HTTP_204_NO_CONTENT
           /\ resp'.body = [msg |-> "", items |-> <<>>]
           /\ ~Stored(table', resp'.id)
           /\ \A j \in PathIds \ {resp'.id} : find(table', j) = find(table, j)
           /\ (resp.method = "DELETE" /\ resp.id = resp'.id) => table' = table
           /\ delete_account(table', nextId', resp'.id).status = HTTP_204_NO_CONTENT
           /\ delete_account(table', nextId', resp'.id).table = table']_vars

\* a stored account has been deleted while another one stays stored
C7_Witness ==
    /\ resp.method = "DELETE"
    /\ resp.status = HTTP_204_NO_CONTENT
    /\ resp.id \in deleted
    /\ table # <<>>

LiveIds == {expected[i].id : i \in 1..Len(expected)}

C9_ListMatchesStore ==
    /\ list_accounts(table, nextId).status = HTTP_200_OK
    /\ Len(list_accounts(table, nextId).body.items) = Len(expected)
    /\ ItemSet(list_accounts(table, nextId).body.items) = ItemSet(expected)
    /\ Cardinality(LiveIds) = Len(expected)
    /\ issued = <<>> => list_accounts(table, nextId).body.items = <<>>
    /\ resp.method = "LIST" =>
         /\ resp.status = HTTP_200_OK
         /\ Len(resp.body.items) = Len(expected)
         /\ ItemSet(resp.body.items) = ItemSet(expected)

\* the list was read after two creates and a delete: one entry, the second
\* account, carrying today's date because it was written without a date
C9_Witness ==
    /\ resp.method = "LIST"
    /\ Len(resp.body.items) = 1
    /\ deleted # {}
    /\ resp.body.items[1].id = 2
    /\ resp.body.items[1].date_joined = IsoFormat(Today)

\* C10 as claimed: every POST or PUT whose Content-Type is not
\* application/json is answered 415 and does not modify the store.
C10_WritesNeedJson ==
    [][(resp'.method \in {"POST", "PUT"} /\ resp'.ctype # JSON_TYPE)
        => (resp'.status = HTTP_415_UNSUPPORTED_MEDIA_TYPE /\ table' = table)]_vars
====
